---- MODULE Spec2Model ----
(***************************************************************************)
(* Filter-wheel fleet manager of the lab server:                           *)
(*   labserver/devices/thorlabs_fw.py   FilterWheel (one wheel connection) *)
(*   labserver/devices/filter_rack.py   FilterRack  (indices, selection)   *)
(* The Thorlabs driver (FWxC_COMMAND_LIB) is the environment: a handle is  *)
(* usable while the driver holds it open (drv), an open or a set-position  *)
(* may fail, and a device fault invalidates the open handle.               *)
(* Time is counted in seconds slept by the polling loop of move_to; the    *)
(* wheels are configured with poll_s = 1.                                  *)
(***************************************************************************)
EXTENDS Integers, Sequences, FiniteSets, TLC

VARIABLES
    cfg,    \* the configuration: wheel keys in order, wheel specs, filter metadata
    hdl,    \* hdl[w]: FilterWheel._hdl, None or the handle returned by open
    drv,    \* drv[w]: the handle the driver holds open for the device, or None
    pos,    \* pos[w]: the slot the device reports
    lock,   \* lock[w]: the thread that holds FilterWheel._lock, or None
    th,     \* th[t]: the call thread t is executing and its locals
    rack,   \* the FilterRack: online, offline, wl_index, nd_index
    srv     \* the LabServer's other devices: the shutter and the ammeter

vars == <<cfg, hdl, drv, pos, lock, th, rack, srv>>

\* Python's None, for a handle, a timeout, a slot or a lock owner.
None == -1

------------------------------------------------------------------------------
(* Bounds *)

\* Handles the driver may return on open are 0..MaxHandle.
MaxHandle == 1
\* Every wheel has slots = MaxSlot; move_to is tried with the slots at and
\* around the two ends of [0, MaxSlot].
MaxSlot == 2
\* move_to is tried with timeout None and 0..MaxTimeout (seconds).
MaxTimeout == 1

Handles == 0..MaxHandle
SlotArgs == {0 - 1, 0, MaxSlot, MaxSlot + 1}
TimeoutArgs == {None} \cup (0..MaxTimeout)

------------------------------------------------------------------------------
(* Configuration *)

BP == "bandpass"
ND == "nd"

\* FilterWheel.__init__ defaults.
TimeoutS == 3
PollS == 1

\* type or "unknown"
WheelType(ty) == IF ty = "" THEN "unknown" ELSE ty

\* {int(k): (v or "EMPTY")}: a missing or empty name becomes EMPTY.
NormFilters(fs) == [i \in 1..Len(fs) |-> <<fs[i][1], IF fs[i][2] = "" THEN "EMPTY" ELSE fs[i][2]>>]

\* FilterWheel(**spec)
Wheel(ty, fs) ==
    [type |-> WheelType(ty), slots |-> MaxSlot, timeout_s |-> TimeoutS,
     poll_s |-> PollS, filters |-> NormFilters(fs)]

\* name.upper(), on the names the configurations use.
Upper(n) == IF n \in {"EMPTY", "empty", "Empty"} THEN "EMPTY" ELSE n

Names == {"F450", "F450b", "F452", "F500", "F600", "ND 0.5", "ND 1.0", "EMPTY", "empty"}

\* meta.get(name, {}): type "" and wl None stand for an absent key.
NoMeta == [type |-> "", wl |-> None]
MetaOf(tab) == [n \in Names |-> IF n \in DOMAIN tab THEN tab[n] ELSE NoMeta]

\* s.split()[-1]: the last token of a string, on the strings in use.
LastToken(s) == IF s = "ND 0.5" THEN "0.5" ELSE IF s = "ND 1.0" THEN "1.0" ELSE s

\* float(s), in hundredths; None when it raises ValueError.
FloatOf(s) == IF s = "0.5" THEN 50 ELSE IF s = "1.0" THEN 100 ELSE None

\* float(name.split()[-1]); None when it raises ValueError.
OdOf(n) == FloatOf(LastToken(n))

\* The scenario of the specification: a band-pass wheel and an ND wheel.
ScnBpNd ==
    [keys |-> <<"A", "B">>,
     wheel |-> [A |-> Wheel(BP, <<<<1, "F450">>, <<2, "EMPTY">>>>),
                B |-> Wheel(ND, <<<<1, "ND 0.5">>>>)],
     meta |-> MetaOf([F450 |-> [type |-> BP, wl |-> 450]])]

\* Two band-pass wheels, each with an EMPTY slot.
ScnTwoBp ==
    [keys |-> <<"A", "B">>,
     wheel |-> [A |-> Wheel(BP, <<<<1, "F450">>, <<2, "EMPTY">>>>),
                B |-> Wheel(BP, <<<<1, "F500">>, <<2, "">>>>)],
     meta |-> MetaOf([F450 |-> [type |-> BP, wl |-> 450],
                      F500 |-> [type |-> BP, wl |-> 500]])]

\* A band-pass filter (by its metadata type) mounted on the ND wheel.
ScnBpOnNd ==
    [keys |-> <<"A", "B">>,
     wheel |-> [A |-> Wheel(ND, <<<<1, "F450">>, <<2, "ND 0.5">>>>),
                B |-> Wheel(BP, <<<<1, "F500">>, <<2, "EMPTY">>>>)],
     meta |-> MetaOf([F450 |-> [type |-> BP, wl |-> 450],
                      F500 |-> [type |-> BP, wl |-> 500]])]

\* Two filters of the same wavelength on two wheels; wheel A has no type.
ScnSameWl ==
    [keys |-> <<"A", "B">>,
     wheel |-> [A |-> Wheel("", <<<<2, "empty">>, <<1, "F450">>>>),
                B |-> Wheel(BP, <<<<1, "F450b">>, <<2, "EMPTY">>>>)],
     meta |-> MetaOf([F450 |-> [type |-> "", wl |-> 450],
                      F450b |-> [type |-> BP, wl |-> 450]])]

\* A band-pass wheel without any EMPTY slot.
ScnNoEmpty ==
    [keys |-> <<"A", "B">>,
     wheel |-> [A |-> Wheel(BP, <<<<1, "F450">>, <<2, "F600">>>>),
                B |-> Wheel(BP, <<<<1, "F500">>, <<2, "EMPTY">>>>)],
     meta |-> MetaOf([F450 |-> [type |-> BP, wl |-> 450],
                      F500 |-> [type |-> BP, wl |-> 500],
                      F600 |-> [type |-> BP, wl |-> 600]])]

\* Two filters at the same distance from 451 nm on one wheel, the filter in
\* the higher slot first in the filter map; two filters on the ND wheel.
ScnTie ==
    [keys |-> <<"A", "B">>,
     wheel |-> [A |-> Wheel(BP, <<<<2, "F452">>, <<1, "F450">>, <<0, "EMPTY">>>>),
                B |-> Wheel(ND, <<<<1, "ND 0.5">>, <<2, "ND 1.0">>>>)],
     meta |-> MetaOf([F450 |-> [type |-> BP, wl |-> 450],
                      F452 |-> [type |-> BP, wl |-> 452]])]

\* Two band-pass wheels; wheel B has two EMPTY slots, the higher one first in
\* its filter map.
ScnTwoEmpty ==
    [keys |-> <<"A", "B">>,
     wheel |-> [A |-> Wheel(BP, <<<<1, "F450">>, <<2, "EMPTY">>>>),
                B |-> Wheel(BP, <<<<2, "EMPTY">>, <<0, "">>, <<1, "F500">>>>)],
     meta |-> MetaOf([F450 |-> [type |-> BP, wl |-> 450],
                      F500 |-> [type |-> BP, wl |-> 500]])]

\* Two ND filters on the ND wheel, the one in the higher slot first in the
\* filter map.
ScnNdTie ==
    [keys |-> <<"A", "B">>,
     wheel |-> [A |-> Wheel(BP, <<<<1, "F450">>, <<2, "EMPTY">>>>),
                B |-> Wheel(ND, <<<<2, "ND 0.5">>, <<1, "ND 1.0">>>>)],
     meta |-> MetaOf([F450 |-> [type |-> BP, wl |-> 450]])]

\* The second of two band-pass wheels has no EMPTY slot.
ScnNoEmptyB ==
    [keys |-> <<"A", "B">>,
     wheel |-> [A |-> Wheel(BP, <<<<1, "F450">>, <<2, "EMPTY">>>>),
                B |-> Wheel(BP, <<<<1, "F500">>, <<2, "F600">>>>)],
     meta |-> MetaOf([F450 |-> [type |-> BP, wl |-> 450],
                      F500 |-> [type |-> BP, wl |-> 500],
                      F600 |-> [type |-> BP, wl |-> 600]])]

\* One wheel, for the connection and motion state machine.
ScnOne ==
    [keys |-> <<"A">>,
     wheel |-> [A |-> Wheel(BP, <<<<1, "F450">>, <<2, "EMPTY">>>>)],
     meta |-> MetaOf([F450 |-> [type |-> BP, wl |-> 450]])]

Keys == {cfg.keys[i] : i \in 1..Len(cfg.keys)}

------------------------------------------------------------------------------
(* Threads *)

NoCmd == [get |-> 0, set |-> 0, close |-> 0, open |-> 0]

\* A thread that is executing no call.
IdleThread ==
    [pc |-> "idle", op |-> "none", caller |-> "none", res |-> "none",
     w |-> "", slot |-> 0, block |-> FALSE, timeout |-> None, force |-> FALSE,
     \* locals of move_to: seconds slept, the deadline, the handle is_connected
     \* probed, the handle passed to set_position_raw, a read returned the slot
     waited |-> 0, deadline |-> 0, chk |-> None, used |-> None, saw |-> FALSE,
     \* history of the call: device commands issued, a command failed, the
     \* outcomes of the open attempts, the handle when the call started
     ncmd |-> NoCmd, fault |-> FALSE, opens |-> <<>>, hdl0 |-> None,
     \* is_connected() when the call started; the handle and is_connected()
     \* when connect or disconnect ended; the polling loop found the handle gone
     live0 |-> FALSE, hdl1 |-> None, conn1 |-> FALSE, lost |-> FALSE,
     \* locals of select_bandpass: arguments, the match, the EMPTY slots, the
     \* position in the move loop, the wheels move_to was called on, the slot
     \* each wheel was commanded to
     wl |-> 0, tol |-> 0, match |-> [w |-> "", slot |-> None, name |-> ""],
     empty |-> <<>>, k |-> 0, tried |-> {}, cmdd |-> <<>>,
     \* what a not-found error reports; the od argument of select_nd and its
     \* parsed value; the mapping available_filters returns
     msg |-> [val |-> None, tol |-> None], arg |-> [str |-> FALSE, text |-> "", val |-> None],
     od |-> None, out |-> <<>>,
     \* FilterRack.__init__: the wheels whose is_connected() was true when the
     \* offline list was computed
     seen |-> {},
     \* the dict status() returns; "None" stands for Python's None
     st |-> [connected |-> FALSE, position |-> None, filter |-> "None"]]

\* _nearest_bp returned None.
NoMatch == IdleThread.match

Bump(n, c) == [n EXCEPT ![c] = @ + 1]

\* The call returns or raises: result is "ok" or the exception.  A move_to
\* called by select_bandpass returns into its loop, whose except clause
\* catches ThorlabsError only (filter_rack.py, lines 140-143).
Caught(result) == result \in {"ok", "ThorlabsError"}

Finish(r, result) ==
    IF r.caller = "select_bandpass" /\ Caught(result)
    THEN [r EXCEPT !.pc = "sb_loop", !.k = @ + 1]
    ELSE [r EXCEPT !.pc = "done", !.res = result]

\* select_bandpass itself returns or raises.
FinishRack(r, result) == [r EXCEPT !.pc = "done", !.res = result]

------------------------------------------------------------------------------
(* The driver *)

\* FWxCGetPosition(h) answers: the driver holds h open.
ProbeOK(w, h) == h # None /\ drv[w] = h

\* FWxCOpen: a handle >= 0, a negative code, or an exception of the library.
OpenOutcomes == [kind : {"handle"}, h : Handles] \cup [kind : {"code", "raise"}, h : {None}]

\* FWxCClose(h): closes h if it is open; it may also raise and close nothing.
CloseOutcomes == {"closed", "raise"}
DrvAfterClose(w, h, out) == IF out = "closed" /\ drv[w] = h THEN None ELSE drv[w]

\* FWxCSetPosition on a usable handle: the wheel reaches the slot, the wheel
\* accepts the command and never gets there, or the command fails (rc < 0).
SetOutcomes(w, h) == IF ProbeOK(w, h) THEN {"arrive", "stuck", "fail"} ELSE {"fail"}

\* The wheel's handle and is_connected() in the state an action leads to.
Snap(r, w) == [r EXCEPT !.hdl1 = hdl'[w], !.conn1 = (hdl'[w] # None /\ drv'[w] = hdl'[w])]

\* A device fault (cable pulled, power lost): the open handle goes stale.
Fault(w) ==
    /\ drv[w] # None
    /\ drv' = [drv EXCEPT ![w] = None]
    /\ UNCHANGED <<cfg, hdl, pos, lock, th, rack, srv>>

------------------------------------------------------------------------------
(* FilterWheel: connection *)

\* Python truth value of self._hdl: None and 0 are false.
Truthy(h) == h # None /\ h # 0

\* open_device raises ThorlabsError("FWxCOpen(..) failed (code h)") on h < 0;
\* an exception of the library is of another class.
OpenError(out) ==
    IF out.kind = "code" THEN [cls |-> "ThorlabsError", failed |-> TRUE]
    ELSE [cls |-> "OtherError", failed |-> FALSE]

\* A retry after any exception of the open.
ShouldRetryAnyError(e) == TRUE

\* except ThorlabsError as e: if "failed" in str(e).lower()
ShouldRetry(e) == e.cls = "ThorlabsError" /\ e.failed

\* _safe_reopen without the clearing of the handle.
ReopenKeep(h) == h

\* _safe_reopen: self._hdl = None before the open
ReopenClear(h) == None

\* connect() up to the first open: the liveness check and, unless it returns
\* at once, the close of a stale handle and the clearing of the handle.
ConnectEnter(t, w, force) ==
    /\ th[t].pc = "idle"
    /\ lock[w] = None
    /\ LET r0 == [IdleThread EXCEPT !.op = "connect", !.w = w, !.force = force,
                                    !.hdl0 = hdl[w], !.live0 = ProbeOK(w, hdl[w])]
           probes == Truthy(hdl[w]) /\ ~force
           r1 == IF probes THEN [r0 EXCEPT !.ncmd = Bump(@, "get")] ELSE r0
       IN IF probes /\ ProbeOK(w, hdl[w])
          THEN /\ UNCHANGED <<hdl, drv, lock>>
               /\ th' = [th EXCEPT ![t] = Finish(Snap(r1, w), "ok")]
          ELSE \E out \in CloseOutcomes :
               /\ th' = [th EXCEPT ![t] =
                          [r1 EXCEPT !.pc = "c_open1",
                                     !.ncmd = IF hdl[w] # None THEN Bump(@, "close") ELSE @]]
               /\ drv' = IF hdl[w] # None
                         THEN [drv EXCEPT ![w] = DrvAfterClose(w, hdl[w], out)]
                         ELSE drv
               /\ hdl' = [hdl EXCEPT ![w] = ReopenClear(@)]
               /\ lock' = [lock EXCEPT ![w] = t]
    /\ UNCHANGED <<cfg, pos, rack, srv>>

\* The first open of connect(): on ThorlabsError with "failed" in its message
\* _safe_reopen runs once more (no handle to close, the handle stays None).
ConnectOpen1(t) ==
    /\ th[t].pc = "c_open1"
    /\ \E out \in OpenOutcomes :
        LET w == th[t].w
            r1 == [th[t] EXCEPT !.ncmd = Bump(@, "open"), !.opens = Append(@, out.kind)]
        IN IF out.kind = "handle"
           THEN /\ hdl' = [hdl EXCEPT ![w] = out.h]
                /\ drv' = [drv EXCEPT ![w] = out.h]
                /\ lock' = [lock EXCEPT ![w] = None]
                /\ th' = [th EXCEPT ![t] = Finish(Snap(r1, w), "ok")]
           ELSE IF ShouldRetry(OpenError(out))
           THEN /\ hdl' = [hdl EXCEPT ![w] = ReopenClear(@)]
                /\ th' = [th EXCEPT ![t] = [r1 EXCEPT !.pc = "c_open2"]]
                /\ UNCHANGED <<drv, lock>>
           ELSE /\ lock' = [lock EXCEPT ![w] = None]
                /\ UNCHANGED <<hdl, drv>>
                /\ th' = [th EXCEPT ![t] = Finish(Snap(r1, w), OpenError(out).cls)]
    /\ UNCHANGED <<cfg, pos, rack, srv>>

\* The second open: its failure propagates.
ConnectOpen2(t) ==
    /\ th[t].pc = "c_open2"
    /\ \E out \in OpenOutcomes :
        LET w == th[t].w
            r1 == [th[t] EXCEPT !.ncmd = Bump(@, "open"), !.opens = Append(@, out.kind)]
        IN /\ lock' = [lock EXCEPT ![w] = None]
           /\ IF out.kind = "handle"
              THEN /\ hdl' = [hdl EXCEPT ![w] = out.h]
                   /\ drv' = [drv EXCEPT ![w] = out.h]
                   /\ th' = [th EXCEPT ![t] = Finish(Snap(r1, w), "ok")]
              ELSE /\ UNCHANGED <<hdl, drv>>
                   /\ th' = [th EXCEPT ![t] = Finish(Snap(r1, w), OpenError(out).cls)]
    /\ UNCHANGED <<cfg, pos, rack, srv>>

\* disconnect(), under the lock: close and clear the handle if it is true.
Disconnect(t, w) ==
    /\ th[t].pc = "idle"
    /\ lock[w] = None
    /\ LET r0 == [IdleThread EXCEPT !.op = "disconnect", !.w = w, !.hdl0 = hdl[w],
                                    !.live0 = ProbeOK(w, hdl[w])]
       IN IF Truthy(hdl[w])
          THEN \E out \in CloseOutcomes :
               /\ drv' = [drv EXCEPT ![w] = DrvAfterClose(w, hdl[w], out)]
               /\ hdl' = [hdl EXCEPT ![w] = None]
               /\ th' = [th EXCEPT ![t] =
                          Finish(Snap([r0 EXCEPT !.ncmd = Bump(@, "close"),
                                                 !.fault = (out = "raise")], w), "ok")]
          ELSE /\ UNCHANGED <<hdl, drv>>
               /\ th' = [th EXCEPT ![t] = Finish(Snap(r0, w), "ok")]
    /\ UNCHANGED <<cfg, pos, lock, rack, srv>>

\* The caller takes the result; the thread is free for its next call.
Return(t) ==
    /\ th[t].pc = "done"
    /\ th' = [th EXCEPT ![t] = IdleThread]
    /\ UNCHANGED <<cfg, hdl, drv, pos, lock, rack, srv>>

------------------------------------------------------------------------------
(* FilterWheel: motion *)

\* The range check with its upper end one slot too far.
SlotInvalidOffByOne(w, slot) == slot < 0 \/ slot > cfg.wheel[w].slots + 1

\* slot < 0 or slot > self.slots
SlotInvalid(w, slot) == slot < 0 \/ slot > cfg.wheel[w].slots

\* timeout or self.timeout_s: a timeout of None or 0 gives the default.
Deadline(w, timeout) ==
    IF timeout = None \/ timeout = 0 THEN cfg.wheel[w].timeout_s ELSE timeout

\* move_to up to its set-position command: the validation of the slot, then
\* is_connected() (a position read on the handle, when there is one).  r0
\* holds the call's frame; move_to takes no lock.
MoveBegin(r0, w, slot, block, timeout) ==
    LET r1 == [r0 EXCEPT !.w = w, !.slot = slot, !.block = block, !.timeout = timeout,
                         !.waited = 0, !.deadline = 0, !.chk = None, !.used = None,
                         !.saw = FALSE]
    IN IF SlotInvalid(w, slot) THEN Finish(r1, "ValueError")
       ELSE IF hdl[w] = None THEN Finish(r1, "ThorlabsError")
       ELSE IF ~ProbeOK(w, hdl[w])
       THEN Finish([r1 EXCEPT !.ncmd = Bump(@, "get"), !.fault = TRUE], "ThorlabsError")
       ELSE [r1 EXCEPT !.ncmd = Bump(@, "get"), !.chk = hdl[w], !.pc = "m_set"]

\* move_to(slot, block=.., timeout=..) called directly on a wheel.
MoveEnter(t, w, slot, block, timeout) ==
    /\ th[t].pc = "idle"
    /\ th' = [th EXCEPT ![t] =
               MoveBegin([IdleThread EXCEPT !.op = "move_to", !.hdl0 = hdl[w],
                                             !.live0 = ProbeOK(w, hdl[w])],
                         w, slot, block, timeout)]
    /\ UNCHANGED <<cfg, hdl, drv, pos, lock, rack, srv>>

\* set_position_raw(self._hdl, slot), with the handle as it is now; then the
\* return of a non-blocking call, or the computation of the deadline.
MoveSet(t) ==
    /\ th[t].pc = "m_set"
    /\ LET w == th[t].w
           h == hdl[w]
       IN \E out \in SetOutcomes(w, h) :
           LET r1 == [th[t] EXCEPT !.ncmd = Bump(@, "set"), !.used = h]
           IN IF out = "fail"
              THEN /\ th' = [th EXCEPT ![t] = Finish([r1 EXCEPT !.fault = TRUE], "ThorlabsError")]
                   /\ pos' = pos
              ELSE /\ pos' = IF out = "arrive" THEN [pos EXCEPT ![w] = th[t].slot] ELSE pos
                   /\ LET r2 == [r1 EXCEPT !.cmdd = IF r1.caller = "none" THEN @
                                                    ELSE [@ EXCEPT ![w] = th[t].slot]]
                      IN th' = [th EXCEPT ![t] =
                                 IF ~th[t].block THEN Finish(r2, "ok")
                                 ELSE [r2 EXCEPT !.pc = "m_poll",
                                                 !.deadline = Deadline(w, th[t].timeout)]]
    /\ UNCHANGED <<cfg, hdl, drv, lock, rack, srv>>

\* A confirmation that accepts any position up to the target slot.
AtSlotOrBelow(w, slot) == pos[w] <= slot

\* self.get_position() == slot
AtSlot(w, slot) == pos[w] = slot

\* One turn of the polling loop: the deadline test, get_position() (the
\* is_connected() read and the position read) and sleep(poll_s).
MovePoll(t) ==
    /\ th[t].pc = "m_poll"
    /\ LET w == th[t].w
           r == th[t]
       IN th' = [th EXCEPT ![t] =
            IF ~(r.waited < r.deadline) THEN Finish(r, "TimeoutError")
            ELSE IF hdl[w] = None THEN Finish([r EXCEPT !.lost = TRUE], "ThorlabsError")
            ELSE IF ~ProbeOK(w, hdl[w])
            THEN Finish([r EXCEPT !.ncmd = Bump(@, "get"), !.fault = TRUE], "ThorlabsError")
            ELSE IF AtSlot(w, r.slot)
            THEN Finish([r EXCEPT !.ncmd = Bump(Bump(@, "get"), "get"), !.saw = TRUE], "ok")
            ELSE [r EXCEPT !.ncmd = Bump(Bump(@, "get"), "get"),
                           !.waited = @ + cfg.wheel[w].poll_s]]
    /\ UNCHANGED <<cfg, hdl, drv, pos, lock, rack, srv>>

------------------------------------------------------------------------------
(* The wheel alone: two threads call connect and disconnect, one move_to *)

WheelThreads == {1, 2}
\* The thread that calls move_to; both threads call connect and disconnect.
Movers == {1}

\* FilterRack.__init__ is modelled further down; a lone wheel has no rack.
NoRack == [online |-> <<>>, offline |-> <<>>, wl_index |-> <<>>, nd_index |-> <<>>]

\* A lone wheel has no server around it either.
NoServer == [shutter |-> [connected |-> FALSE, open |-> FALSE], ammeter |-> "none"]

InitWheel ==
    /\ cfg = ScnOne
    /\ hdl = [w \in {"A"} |-> None]
    /\ drv = [w \in {"A"} |-> None]
    /\ pos = [w \in {"A"} |-> 0]
    /\ lock = [w \in {"A"} |-> None]
    /\ th = [t \in WheelThreads |-> IdleThread]
    /\ rack = NoRack
    /\ srv = NoServer

NextWheel ==
    \/ \E t \in DOMAIN th, w \in Keys, force \in BOOLEAN : ConnectEnter(t, w, force)
    \/ \E t \in DOMAIN th : ConnectOpen1(t)
    \/ \E t \in DOMAIN th : ConnectOpen2(t)
    \/ \E t \in DOMAIN th, w \in Keys : Disconnect(t, w)
    \/ \E t \in Movers, w \in Keys, slot \in SlotArgs, block \in BOOLEAN,
          timeout \in TimeoutArgs : MoveEnter(t, w, slot, block, timeout)
    \/ \E t \in DOMAIN th : MoveSet(t)
    \/ \E t \in DOMAIN th : MovePoll(t)
    \/ \E t \in DOMAIN th : Return(t)
    \/ \E w \in Keys : Fault(w)

SpecWheel == InitWheel /\ [][NextWheel]_vars

------------------------------------------------------------------------------
(* FilterRack: construction *)

\* A connectivity test that trusts any handle, stale or not.
HasHandle(w) == hdl[w] # None

\* FilterWheel.is_connected(): a handle, and the position read on it answers.
IsConnected(w) == ProbeOK(w, hdl[w])

Abs(x) == IF x < 0 THEN 0 - x ELSE x

\* The slots _build_indices visits, in its order: the wheels in the order of
\* the configuration, the wheels conn reports connected only, each wheel's
\* filters in the order of its filter map.
RECURSIVE Visited(_, _, _)
Visited(c, conn, i) ==
    IF i > Len(c.keys) THEN <<>>
    ELSE LET w == c.keys[i]
             f == c.wheel[w].filters
         IN (IF conn[w]
             THEN [j \in 1..Len(f) |-> [w |-> w, slot |-> f[j][1], name |-> f[j][2]]]
             ELSE <<>>) \o Visited(c, conn, i + 1)

\* f_meta.get("type", ND if wheel.type == ND else BP)
FType(c, w, name) ==
    IF c.meta[name].type # "" THEN c.meta[name].type
    ELSE IF c.wheel[w].type = ND THEN ND ELSE BP

\* An index that keeps the first filter of a wavelength (dict.setdefault).
PutFirst(idx, key, e) ==
    IF \E i \in 1..Len(idx) : idx[i].key = key THEN idx
    ELSE Append(idx, [key |-> key, w |-> e.w, slot |-> e.slot, name |-> e.name])

\* index[key] = (wkey, slot, name): a key already there keeps its place in the
\* iteration order and takes the new value.
Put(idx, key, e) ==
    LET new == [key |-> key, w |-> e.w, slot |-> e.slot, name |-> e.name]
    IN IF \E i \in 1..Len(idx) : idx[i].key = key
       THEN [i \in 1..Len(idx) |-> IF idx[i].key = key THEN new ELSE idx[i]]
       ELSE Append(idx, new)

\* The body of the loop of _build_indices for one slot.
IndexOne(c, acc, e) ==
    IF Upper(e.name) = "EMPTY" THEN acc
    ELSE IF FType(c, e.w, e.name) = BP /\ c.meta[e.name].wl # None
    THEN [acc EXCEPT !.wl = Put(@, c.meta[e.name].wl, e)]
    ELSE IF FType(c, e.w, e.name) = ND /\ OdOf(e.name) # None
    THEN [acc EXCEPT !.nd = Put(@, OdOf(e.name), e)]
    ELSE acc

RECURSIVE IndexAll(_, _, _, _)
IndexAll(c, items, i, acc) ==
    IF i > Len(items) THEN acc
    ELSE IndexAll(c, items, i + 1, IndexOne(c, acc, items[i]))

\* _build_indices, with is_connected() answering conn.
BuildIndices(c, conn) == IndexAll(c, Visited(c, conn, 1), 1, [wl |-> <<>>, nd |-> <<>>])

\* FilterRack.__init__: conn0 is what is_connected() answers when the offline
\* list is computed, conn1 what it answers when the indices are built.
NewRack(c, conn0, conn1) ==
    [offline |-> SelectSeq(c.keys, LAMBDA w : ~conn0[w]),
     online |-> SelectSeq(c.keys, LAMBDA w : conn0[w]),
     wl_index |-> BuildIndices(c, conn1).wl,
     nd_index |-> BuildIndices(c, conn1).nd]

------------------------------------------------------------------------------
(* FilterRack: band-pass selection *)

\* The order of Python strings on the wheel keys.
KeyRank(w) == IF w = "A" THEN 1 ELSE IF w = "B" THEN 2 ELSE 3

\* (d1, (w1, slot1, ..)) < (d2, (w2, slot2, ..)) as Python orders tuples.  Two
\* entries of the index never agree on wheel and slot, so the name never decides.
TupleLess(d1, e1, d2, e2) ==
    \/ d1 < d2
    \/ d1 = d2 /\ KeyRank(e1.w) < KeyRank(e2.w)
    \/ d1 = d2 /\ e1.w = e2.w /\ e1.slot < e2.slot

\* abs(target_nm - wl) <= tol_nm
WithinTol(target, key, tol) == Abs(target - key) <= tol

\* _nearest_bp: min() over the (distance, triple) pairs within the tolerance.
NearestBp(idx, target, tol) ==
    LET cands == SelectSeq(idx, LAMBDA e : WithinTol(target, e.key, tol))
        D(e) == Abs(target - e.key)
    IN IF cands = <<>> THEN NoMatch
       ELSE LET m == CHOOSE i \in 1..Len(cands) :
                        \A j \in 1..Len(cands) :
                            j # i => TupleLess(D(cands[i]), cands[i], D(cands[j]), cands[j])
            IN [w |-> cands[m].w, slot |-> cands[m].slot, name |-> cands[m].name]

\* An EMPTY slot chosen by where the wheel stands: one it is not at, if any.
OtherEmpty(w) ==
    LET f == cfg.wheel[w].filters
        es == {f[i][1] : i \in {j \in 1..Len(f) : Upper(f[j][2]) = "EMPTY"}}
    IN IF es = {} THEN None
       ELSE IF es \ {pos[w]} # {} THEN CHOOSE x \in es \ {pos[w]} : TRUE
       ELSE CHOOSE x \in es : TRUE

\* for s, n in w.filters.items(): if str(n).upper() == "EMPTY": the first one,
\* in the order of the filter map; None when the wheel has no EMPTY slot.
FirstEmpty(w) ==
    LET f == cfg.wheel[w].filters
        es == {i \in 1..Len(f) : Upper(f[i][2]) = "EMPTY"}
    IN IF es = {} THEN None
       ELSE f[CHOOSE i \in es : \A j \in es : i <= j][1]

\* The position reads a sequence of is_connected() calls issues, and whether
\* one of them failed on a stale handle.
Probed(ws) == {w \in ws : hdl[w] # None}
Probes(r, ws) ==
    [r EXCEPT !.ncmd = [@ EXCEPT !.get = @ + Cardinality(Probed(ws))],
              !.fault = @ \/ (\E w \in Probed(ws) : ~IsConnected(w))]

\* select_bandpass up to its move loop: the lookup, and the first EMPTY slot
\* of every wheel that is not ND and is connected.
SelectEnter(t, wl, tol, block) ==
    /\ th[t].pc = "idle"
    /\ LET r0 == [IdleThread EXCEPT !.op = "select_bandpass", !.wl = wl, !.tol = tol,
                                    !.block = block, !.caller = "select_bandpass",
                                    !.match = NearestBp(rack.wl_index, wl, tol),
                                    !.cmdd = [w \in Keys |-> None],
                                    !.empty = [w \in Keys |-> None]]
           notNd == {w \in Keys : cfg.wheel[w].type # ND}
       IN th' = [th EXCEPT ![t] =
            IF r0.match = NoMatch
            THEN FinishRack([r0 EXCEPT !.msg = [val |-> wl, tol |-> tol]], "KeyError")
            ELSE [Probes(r0, notNd) EXCEPT
                     !.empty = [w \in Keys |-> IF w \in notNd /\ IsConnected(w)
                                               THEN FirstEmpty(w) ELSE None],
                     !.pc = "sb_loop", !.k = 1]]
    /\ UNCHANGED <<cfg, hdl, drv, pos, lock, rack, srv>>

\* One turn of the move loop up to the call of move_to: the wheel is skipped
\* if it is not connected or ND; empty[k] raises KeyError for a wheel that is
\* not the target and has no EMPTY slot.
SelectStep(t) ==
    /\ th[t].pc = "sb_loop"
    /\ LET r == th[t]
       IN th' = [th EXCEPT ![t] =
            IF r.k > Len(cfg.keys) THEN FinishRack(r, "ok")
            ELSE LET w == cfg.keys[r.k]
                     r1 == Probes(r, {w})
                 IN IF ~IsConnected(w) \/ cfg.wheel[w].type = ND
                    THEN [r1 EXCEPT !.k = @ + 1]
                    ELSE IF w # r.match.w /\ r.empty[w] = None
                    THEN FinishRack(r1, "KeyError")
                    ELSE [r1 EXCEPT !.pc = "sb_move", !.w = w,
                                    !.slot = IF w = r.match.w THEN r.match.slot
                                             ELSE r.empty[w]]]
    /\ UNCHANGED <<cfg, hdl, drv, pos, lock, rack, srv>>

\* w.move_to(slot, block=block) inside the try of the move loop.
SelectMove(t) ==
    /\ th[t].pc = "sb_move"
    /\ th' = [th EXCEPT ![t] =
               MoveBegin([th[t] EXCEPT !.tried = @ \cup {th[t].w}],
                         th[t].w, th[t].slot, th[t].block, None)]
    /\ UNCHANGED <<cfg, hdl, drv, pos, lock, rack, srv>>

------------------------------------------------------------------------------
(* FilterRack: neutral-density selection, introspection, teardown *)

\* float(od) if isinstance(od, str) else od; None when float raises ValueError.
ParseOd(arg) == IF arg.str THEN FloatOf(arg.text) ELSE arg.val

\* The lookup of select_nd done as _nearest_bp does its own: min() over the
\* whole (distance, triple) pairs.
NearestNdByTuple(idx, target, tol) == NearestBp(idx, target, tol)

\* The last of the entries within the tolerance.
LastNd(idx, target, tol) ==
    LET cands == SelectSeq(idx, LAMBDA e : WithinTol(target, e.key, tol))
    IN IF cands = <<>> THEN NoMatch
       ELSE [w |-> cands[Len(cands)].w, slot |-> cands[Len(cands)].slot,
             name |-> cands[Len(cands)].name]

\* min(cands, key=lambda t: t[0]): of the entries within the tolerance, the
\* first, in the order of the index, of those at the least distance.
NearestNd(idx, target, tol) ==
    LET cands == SelectSeq(idx, LAMBDA e : WithinTol(target, e.key, tol))
        D(e) == Abs(target - e.key)
    IN IF cands = <<>> THEN NoMatch
       ELSE LET m == CHOOSE i \in 1..Len(cands) :
                        /\ \A j \in 1..Len(cands) : D(cands[i]) <= D(cands[j])
                        /\ \A j \in 1..(i - 1) : D(cands[j]) > D(cands[i])
            IN [w |-> cands[m].w, slot |-> cands[m].slot, name |-> cands[m].name]

\* select_nd(od, tol=.., block=..) up to the set-position command of its one
\* move_to: the parse of od, the lookup, then move_to's validation and
\* is_connected(); nothing catches what move_to raises.
SelectNd(t, arg, tol, block) ==
    /\ th[t].pc = "idle"
    /\ LET r0 == [IdleThread EXCEPT !.op = "select_nd", !.caller = "select_nd",
                                    !.arg = arg, !.tol = tol, !.block = block,
                                    !.od = ParseOd(arg),
                                    !.cmdd = [w \in Keys |-> None]]
           m == NearestNd(rack.nd_index, r0.od, tol)
       IN th' = [th EXCEPT ![t] =
            IF r0.od = None THEN FinishRack(r0, "ValueError")
            ELSE IF m = NoMatch
            THEN FinishRack([r0 EXCEPT !.msg = [val |-> r0.od, tol |-> tol]], "KeyError")
            ELSE MoveBegin([r0 EXCEPT !.match = m, !.tried = {m.w}],
                           m.w, m.slot, block, None)]
    /\ UNCHANGED <<cfg, hdl, drv, pos, lock, rack, srv>>

\* out[str(name)] = (k, slot) for the slots that are not EMPTY.
RECURSIVE ListAll(_, _, _)
ListAll(items, i, acc) ==
    IF i > Len(items) THEN acc
    ELSE ListAll(items, i + 1,
                 IF Upper(items[i].name) = "EMPTY" THEN acc
                 ELSE Put(acc, items[i].name, items[i]))

\* available_filters(): the filters of the wheels of self.online, in its order.
Listing(online) ==
    ListAll(Visited(cfg, [w \in Keys |-> \E q \in 1..Len(online) : online[q] = w], 1),
            1, <<>>)

AvailableFilters(t) ==
    /\ th[t].pc = "idle"
    /\ th' = [th EXCEPT ![t] =
               FinishRack([IdleThread EXCEPT !.op = "available_filters",
                                             !.out = Listing(rack.online)], "ok")]
    /\ UNCHANGED <<cfg, hdl, drv, pos, lock, rack, srv>>

\* FilterRack.close() is called.
RackClose(t) ==
    /\ th[t].pc = "idle"
    /\ th' = [th EXCEPT ![t] =
               [IdleThread EXCEPT !.op = "close", !.caller = "close",
                                  !.pc = "cl_loop", !.k = 1]]
    /\ UNCHANGED <<cfg, hdl, drv, pos, lock, rack, srv>>

\* One turn of the loop of close(): w.disconnect(), which closes and clears
\* the handle if it is true and swallows what the close raises.
CloseStep(t) ==
    /\ th[t].pc = "cl_loop"
    /\ LET r == th[t]
       IN IF r.k > Len(cfg.keys)
          THEN /\ th' = [th EXCEPT ![t] = FinishRack(r, "ok")]
               /\ UNCHANGED <<hdl, drv>>
          ELSE LET w == cfg.keys[r.k]
               IN /\ lock[w] = None
                  /\ IF Truthy(hdl[w])
                     THEN \E out \in CloseOutcomes :
                          /\ drv' = [drv EXCEPT ![w] = DrvAfterClose(w, hdl[w], out)]
                          /\ hdl' = [hdl EXCEPT ![w] = None]
                          /\ th' = [th EXCEPT ![t] =
                                     [r EXCEPT !.k = @ + 1, !.ncmd = Bump(@, "close"),
                                               !.fault = @ \/ (out = "raise")]]
                     ELSE /\ UNCHANGED <<hdl, drv>>
                          /\ th' = [th EXCEPT ![t] = [r EXCEPT !.k = @ + 1]]
    /\ UNCHANGED <<cfg, pos, lock, rack, srv>>

------------------------------------------------------------------------------
(* FilterWheel: status *)

\* self.filters.get(pos, "UNKNOWN")
FilterAt(w, p) ==
    LET f == cfg.wheel[w].filters
    IN IF \E i \in 1..Len(f) : f[i][1] = p
       THEN f[CHOOSE i \in 1..Len(f) : f[i][1] = p][2]
       ELSE "UNKNOWN"

\* status(), line 191: is_connected(), which decides whether the position
\* is read.
StatusEnter(t, w) ==
    /\ th[t].pc = "idle"
    /\ th' = [th EXCEPT ![t] =
               [Probes([IdleThread EXCEPT !.op = "status", !.w = w,
                                          !.live0 = IsConnected(w)], {w})
                   EXCEPT !.pc = IF IsConnected(w) THEN "st_read" ELSE "st_build"]]
    /\ UNCHANGED <<cfg, hdl, drv, pos, lock, rack, srv>>

\* get_position(): not-connected if is_connected() is false now, else the
\* position the device reports.
StatusRead(t) ==
    /\ th[t].pc = "st_read"
    /\ LET w == th[t].w
           r == Probes(th[t], {w})
       IN th' = [th EXCEPT ![t] =
            IF ~IsConnected(w) THEN FinishRack(r, "ThorlabsError")
            ELSE [r EXCEPT !.ncmd = Bump(@, "get"), !.st.position = pos[w],
                           !.pc = "st_build"]]
    /\ UNCHANGED <<cfg, hdl, drv, pos, lock, rack, srv>>

\* The dict: connected is is_connected() now; current_filter is
\* self.filters.get(pos, "UNKNOWN") if pos else None.
StatusBuild(t) ==
    /\ th[t].pc = "st_build"
    /\ LET w == th[t].w
           r == Probes(th[t], {w})
           p == th[t].st.position
       IN th' = [th EXCEPT ![t] =
            FinishRack([r EXCEPT !.st.connected = IsConnected(w),
                                 !.st.filter = IF p # None /\ p # 0
                                               THEN FilterAt(w, p) ELSE "None"], "ok")]
    /\ UNCHANGED <<cfg, hdl, drv, pos, lock, rack, srv>>

------------------------------------------------------------------------------
(* LabServer: shutdown *)

\* ljm.eWriteName and Serial.close answer or raise.
IoOutcomes == {"ok", "raise"}

\* LabServer.close(), its first statement: self._shutter.close(), that is
\* _write_line(False) and then _state = False.
ServerClose(t) ==
    /\ th[t].pc = "idle"
    /\ LET r0 == [IdleThread EXCEPT !.op = "server_close", !.caller = "server_close"]
       IN IF ~srv.shutter.connected
          THEN /\ th' = [th EXCEPT ![t] = FinishRack(r0, "RuntimeError")]
               /\ srv' = srv
          ELSE \E out \in IoOutcomes :
               IF out = "raise"
               THEN /\ th' = [th EXCEPT ![t] =
                               FinishRack([r0 EXCEPT !.fault = TRUE], "OtherError")]
                    /\ srv' = srv
               ELSE /\ th' = [th EXCEPT ![t] = [r0 EXCEPT !.pc = "sc_ammeter"]]
                    /\ srv' = [srv EXCEPT !.shutter.open = FALSE]
    /\ UNCHANGED <<cfg, hdl, drv, pos, lock, rack>>

\* if self.ammeter: self.ammeter.disconnect(); then self.rack.close().
ServerCloseAmmeter(t) ==
    /\ th[t].pc = "sc_ammeter"
    /\ LET r == th[t]
           next == [r EXCEPT !.pc = "cl_loop", !.k = 1]
       IN IF srv.ammeter # "open"
          THEN /\ th' = [th EXCEPT ![t] = next]
               /\ srv' = srv
          ELSE \E out \in IoOutcomes :
               IF out = "raise"
               THEN /\ th' = [th EXCEPT ![t] =
                               FinishRack([r EXCEPT !.fault = TRUE], "OtherError")]
                    /\ srv' = srv
               ELSE /\ th' = [th EXCEPT ![t] = next]
                    /\ srv' = [srv EXCEPT !.ammeter = "closed"]
    /\ UNCHANGED <<cfg, hdl, drv, pos, lock, rack>>

------------------------------------------------------------------------------
(* The rack: one caller selects band-pass filters *)

Scenarios ==
    {ScnBpNd, ScnTwoBp, ScnBpOnNd, ScnSameWl, ScnNoEmpty, ScnTie, ScnNdTie, ScnNoEmptyB}
Wavelengths == {450, 451, 500, 600}
Tolerances == {0, 2}

\* select_nd is tried with numbers (in hundredths) and with strings.
OdArgs ==
    [str : {FALSE}, text : {""}, val : {50, 55, 56, 75}]
        \cup [str : {TRUE}, text : {"0.5", "ND 0.5", "none"}, val : {None}]
OdTolerances == {0, 5, 50}

\* LabServer.__init__: the shutter is connected; the ammeter is connected or,
\* its connect having failed, absent.
Servers == [shutter : {[connected |-> TRUE, open |-> TRUE]}, ammeter : {"none", "open"}]

\* The handle the driver gives the i-th wheel.
HandleOf(c, w) == CHOOSE i \in 0..(Len(c.keys) - 1) : c.keys[i + 1] = w

\* FilterRack.from_yaml: every wheel is connected or, its open having failed,
\* offline; the rack is built from what is_connected() answers then.
InitRack ==
    /\ cfg \in Scenarios
    /\ \E on \in SUBSET {"A", "B"} :
        /\ hdl = [w \in {"A", "B"} |-> IF w \in on THEN HandleOf(cfg, w) ELSE None]
        /\ drv = hdl
        /\ rack = NewRack(cfg, [w \in {"A", "B"} |-> w \in on], [w \in {"A", "B"} |-> w \in on])
    /\ pos = [w \in {"A", "B"} |-> 0]
    /\ lock = [w \in {"A", "B"} |-> None]
    /\ th = [t \in {1} |-> IdleThread]
    /\ srv \in Servers

NextRack ==
    \/ \E t \in DOMAIN th, wl \in Wavelengths, tol \in Tolerances, block \in BOOLEAN :
          SelectEnter(t, wl, tol, block)
    \/ \E t \in DOMAIN th : SelectStep(t)
    \/ \E t \in DOMAIN th : SelectMove(t)
    \/ \E t \in DOMAIN th, arg \in OdArgs, tol \in OdTolerances, block \in BOOLEAN :
          SelectNd(t, arg, tol, block)
    \/ \E t \in DOMAIN th : AvailableFilters(t)
    \/ \E t \in DOMAIN th, w \in Keys : StatusEnter(t, w)
    \/ \E t \in DOMAIN th : StatusRead(t)
    \/ \E t \in DOMAIN th : StatusBuild(t)
    \/ \E t \in DOMAIN th : RackClose(t)
    \/ \E t \in DOMAIN th : CloseStep(t)
    \/ \E t \in DOMAIN th : ServerClose(t)
    \/ \E t \in DOMAIN th : ServerCloseAmmeter(t)
    \/ \E t \in DOMAIN th : MoveSet(t)
    \/ \E t \in DOMAIN th : MovePoll(t)
    \/ \E t \in DOMAIN th : Return(t)
    \/ \E w \in Keys : Fault(w)

SpecRack == InitRack /\ [][NextRack]_vars

------------------------------------------------------------------------------
(* select_bandpass run twice in succession with the same arguments: caller 1
   makes the first call, and when it has ended caller 2 makes the second *)

TwiceScenarios == {ScnBpNd, ScnTwoBp, ScnTwoEmpty}

InitTwice ==
    /\ cfg \in TwiceScenarios
    /\ \E on \in SUBSET {"A", "B"} :
        /\ hdl = [w \in {"A", "B"} |-> IF w \in on THEN HandleOf(cfg, w) ELSE None]
        /\ drv = hdl
        /\ rack = NewRack(cfg, [w \in {"A", "B"} |-> w \in on], [w \in {"A", "B"} |-> w \in on])
    /\ pos = [w \in {"A", "B"} |-> 0]
    /\ lock = [w \in {"A", "B"} |-> None]
    /\ th = [t \in {1, 2} |-> IdleThread]
    /\ srv \in Servers

NextTwice ==
    \/ \E wl \in Wavelengths, tol \in Tolerances, block \in BOOLEAN :
          SelectEnter(1, wl, tol, block)
    \/ /\ th[1].pc = "done"
       /\ SelectEnter(2, th[1].wl, th[1].tol, th[1].block)
    \/ \E t \in DOMAIN th : SelectStep(t)
    \/ \E t \in DOMAIN th : SelectMove(t)
    \/ \E t \in DOMAIN th : MoveSet(t)
    \/ \E t \in DOMAIN th : MovePoll(t)
    \/ \E w \in Keys : Fault(w)

SpecTwice == InitTwice /\ [][NextTwice]_vars

------------------------------------------------------------------------------
(* Two callers of the server call select_bandpass concurrently, each once *)

\* A rack-level lock: a call starts only while no other call is running.
RackIdle(t) == \A u \in DOMAIN th \ {t} : th[u].pc \in {"idle", "done"}

\* What select_bandpass waits for before it starts: nothing, it takes no lock.
RackFree(t) == TRUE

ConcWavelengths == {450, 500}

\* A caller's select_bandpass(wl, tol_nm=0) starts.
ConcEnter(t) ==
    \E wl \in ConcWavelengths, block \in BOOLEAN :
        RackFree(t) /\ SelectEnter(t, wl, 0, block)

\* The rack of two band-pass wheels, both online, behind a server with its
\* ammeter connected.
InitConc ==
    /\ cfg = ScnTwoBp
    /\ hdl = [w \in {"A", "B"} |-> HandleOf(cfg, w)]
    /\ drv = hdl
    /\ rack = NewRack(cfg, [w \in {"A", "B"} |-> TRUE], [w \in {"A", "B"} |-> TRUE])
    /\ pos = [w \in {"A", "B"} |-> 0]
    /\ lock = [w \in {"A", "B"} |-> None]
    /\ th = [t \in {1, 2} |-> IdleThread]
    /\ srv = [shutter |-> [connected |-> TRUE, open |-> TRUE], ammeter |-> "open"]

NextConc ==
    \/ \E t \in DOMAIN th : ConcEnter(t)
    \/ \E t \in DOMAIN th : SelectStep(t)
    \/ \E t \in DOMAIN th : SelectMove(t)
    \/ \E t \in DOMAIN th : MoveSet(t)
    \/ \E t \in DOMAIN th : MovePoll(t)
    \/ \E w \in Keys : Fault(w)

SpecConc == InitConc /\ [][NextConc]_vars

------------------------------------------------------------------------------
(* The construction of the rack, with the devices free to fail and to answer
   again while FilterRack.__init__ runs *)

\* The position read on the handle the wheel holds answers again (a
\* transient failure of the read is over).
Recover(w) ==
    /\ hdl[w] # None
    /\ drv[w] = None
    /\ drv' = [drv EXCEPT ![w] = hdl[w]]
    /\ UNCHANGED <<cfg, hdl, pos, lock, th, rack, srv>>

\* FilterRack.__init__, lines 35-47: the offline and online lists, from what
\* is_connected() answers now; the two indices are empty.
RackInitLists(t) ==
    /\ th[t].pc = "idle"
    /\ LET conn0 == [w \in Keys |-> IsConnected(w)]
       IN /\ rack' = NewRack(cfg, conn0, [w \in Keys |-> FALSE])
          /\ th' = [th EXCEPT ![t] =
                     [Probes(IdleThread, Keys) EXCEPT
                         !.op = "init", !.pc = "init_index",
                         !.seen = {w \in Keys : conn0[w]}]]
    /\ UNCHANGED <<cfg, hdl, drv, pos, lock, srv>>

\* FilterRack.__init__, line 48: _build_indices(), from what is_connected()
\* answers now.
RackInitIndex(t) ==
    /\ th[t].pc = "init_index"
    /\ rack' = NewRack(cfg, [w \in Keys |-> w \in th[t].seen],
                            [w \in Keys |-> IsConnected(w)])
    /\ th' = [th EXCEPT ![t] = FinishRack(Probes(th[t], Keys), "ok")]
    /\ UNCHANGED <<cfg, hdl, drv, pos, lock, srv>>

\* FilterRack.from_yaml up to the call of the constructor: every wheel is
\* connected or, its open having failed, without a handle.
InitBuild ==
    /\ cfg \in Scenarios
    /\ \E on \in SUBSET {"A", "B"} :
        hdl = [w \in {"A", "B"} |-> IF w \in on THEN HandleOf(cfg, w) ELSE None]
    /\ drv = hdl
    /\ rack = NoRack
    /\ pos = [w \in {"A", "B"} |-> 0]
    /\ lock = [w \in {"A", "B"} |-> None]
    /\ th = [t \in {1} |-> IdleThread]
    /\ srv = NoServer

NextBuild ==
    \/ \E t \in DOMAIN th : RackInitLists(t)
    \/ \E t \in DOMAIN th : RackInitIndex(t)
    \/ \E w \in Keys : Fault(w)
    \/ \E w \in Keys : Recover(w)

SpecBuild == InitBuild /\ [][NextBuild]_vars

------------------------------------------------------------------------------
(* Claims about the wheel, under SpecWheel *)

Calls(op) == {t \in DOMAIN th : th[t].op = op}
Ended(op) == {t \in Calls(op) : th[t].pc = "done"}

\* C3: move_to(slot) with slot < 0 or slot > slots raises the invalid-argument
\* error (ValueError) and issues no device command, whatever the connection
\* state of the wheel.
C3_InvalidSlotNoCommand ==
    \A t \in Calls("move_to") :
        (th[t].slot < 0 \/ th[t].slot > cfg.wheel[th[t].w].slots)
            => th[t].pc = "done" /\ th[t].res = "ValueError" /\ th[t].ncmd = NoCmd

\* A move_to on a connected wheel, with a slot past the last one, has ended.
C3_Witness ==
    \E t \in Ended("move_to") :
        /\ th[t].slot > cfg.wheel[th[t].w].slots
        /\ th[t].live0

\* The deadline the caller configured: the timeout given, else the default.
Configured(t) ==
    IF th[t].timeout = None THEN cfg.wheel[th[t].w].timeout_s ELSE th[t].timeout

\* C4: a blocking move_to on a connected wheel whose device answers every
\* command and never reports the target slot ends with TimeoutError, raised at
\* the first deadline test after the configured deadline (the timeout given,
\* 0 included, else the default) has elapsed: not before it, and not a whole
\* poll interval after it.
C4_TimeoutAtConfiguredDeadline ==
    \A t \in Ended("move_to") :
        (th[t].block /\ th[t].chk # None /\ ~th[t].saw /\ ~th[t].fault /\ ~th[t].lost)
            => /\ th[t].res = "TimeoutError"
               /\ th[t].waited >= Configured(t)
               /\ th[t].waited < Configured(t) + cfg.wheel[th[t].w].poll_s

\* C5: when disconnect() has returned the wheel is Disconnected (the handle is
\* cleared and is_connected() is false) for every handle >= 0 the open may have
\* returned, whether or not the close fails; and disconnect() never fails.
C5_DisconnectClearsHandle ==
    \A t \in Ended("disconnect") :
        th[t].res = "ok" /\ th[t].hdl1 = None /\ ~th[t].conn1

\* C6: connect(force=false) on a wheel connected with a live handle issues one
\* position read, no close and no open, and leaves the handle as it was, for
\* every handle >= 0.
C6_ConnectLiveIsNoOp ==
    \A t \in Calls("connect") :
        (~th[t].force /\ th[t].hdl0 # None /\ th[t].live0)
            => /\ th[t].pc = "done" /\ th[t].res = "ok"
               /\ th[t].ncmd = [NoCmd EXCEPT !.get = 1]
               /\ th[t].hdl1 = th[t].hdl0

\* C7: one connect() makes at most two open attempts, the second only after the
\* first failed with the "open failed" device error (a negative code) and then
\* always; the failure of the second open propagates, and a first failure of
\* another class of error propagates without a retry.
C7_RetryOnceOnOpenFailed ==
    \A t \in Calls("connect") :
        LET o == th[t].opens
        IN /\ Len(o) <= 2
           /\ th[t].ncmd.open = Len(o)
           /\ Len(o) = 2 => o[1] = "code"
           /\ th[t].pc = "done" =>
                /\ (Len(o) >= 1 /\ o[1] = "code") => Len(o) = 2
                /\ (Len(o) >= 1 /\ o[1] = "raise") => (Len(o) = 1 /\ th[t].res = "OtherError")
                /\ (Len(o) = 2 /\ o[2] = "code") => th[t].res = "ThorlabsError"
                /\ (Len(o) = 2 /\ o[2] = "raise") => th[t].res = "OtherError"
                /\ (Len(o) >= 1 /\ o[Len(o)] = "handle") => th[t].res = "ok"

\* A connect() whose two opens both failed with a negative code has raised.
C7_Witness ==
    \E t \in Ended("connect") :
        th[t].opens = <<"code", "code">> /\ th[t].res = "ThorlabsError"

\* C8: connect() either returns with the wheel Connected (is_connected() true
\* right after the call) or raises an error of the driver boundary with the
\* wheel Disconnected: no handle, stale or not, is left behind.
C8_ConnectAllOrNothing ==
    \A t \in Ended("connect") :
        \/ th[t].res = "ok" /\ th[t].hdl1 # None /\ th[t].conn1
        \/ th[t].res \in {"ThorlabsError", "OtherError"} /\ th[t].hdl1 = None /\ ~th[t].conn1

\* A connect() on a wheel that held a handle has failed.
C8_Witness ==
    \E t \in Ended("connect") :
        th[t].res = "ThorlabsError" /\ th[t].hdl0 # None

\* C9: connect, disconnect and move_to on one wheel do not interleave: the
\* handle move_to passes to set_position_raw is the handle its is_connected()
\* check has just probed, not one a concurrent disconnect or connect has
\* cleared or replaced since.
C9_MoveUsesCheckedHandle ==
    \A t \in Calls("move_to") :
        th[t].ncmd.set > 0 => th[t].used = th[t].chk

\* C27: a blocking move_to returns normally only on a position read, made
\* after its set-position command on a handle that answers, that returned the
\* target slot; every other ending of a move_to is an error (invalid slot,
\* not connected or device error, timeout).
C27_BlockingMoveReturnsConfirmed ==
    /\ [](\A t \in Ended("move_to") :
            /\ th[t].res \in {"ok", "ValueError", "ThorlabsError", "TimeoutError"}
            /\ (th[t].block /\ th[t].res = "ok")
                  => th[t].saw /\ th[t].ncmd.set = 1 /\ th[t].ncmd.get >= 3)
    /\ [][\A t \in DOMAIN th :
            (th'[t].op = "move_to" /\ th'[t].block /\ th[t].pc # "done"
             /\ th'[t].pc = "done" /\ th'[t].res = "ok")
                => /\ th[t].pc = "m_poll"
                   /\ pos[th[t].w] = th[t].slot
                   /\ hdl[th[t].w] # None /\ drv[th[t].w] = hdl[th[t].w]]_vars

\* A blocking move_to to the last slot has returned normally after a
\* position read found the wheel at that slot.
C27_Witness ==
    \E t \in Ended("move_to") :
        /\ th[t].block /\ th[t].res = "ok" /\ th[t].saw
        /\ th[t].slot = cfg.wheel[th[t].w].slots
        /\ pos[th[t].w] = th[t].slot

------------------------------------------------------------------------------
(* Claims about band-pass selection, under SpecRack *)

\* Every wheel select_bandpass may have to clear has an EMPTY slot.
ClearableRack(t) ==
    \A w \in Keys :
        w = th[t].match.w \/ cfg.wheel[w].type = ND \/ FirstEmpty(w) # None

\* C1: in select_bandpass the failure of one wheel's move, whatever it is (a
\* device error, the timeout of a blocking move), is caught: the loop goes on
\* to every remaining wheel and the call returns normally.
C1_MoveFailuresAreCaught ==
    \A t \in Ended("select_bandpass") :
        (th[t].match # NoMatch /\ ClearableRack(t))
            => th[t].res = "ok" /\ th[t].k = Len(cfg.keys) + 1

\* The slots of wheel w that hold EMPTY.
EmptySlots(w) ==
    LET f == cfg.wheel[w].filters
    IN {f[i][1] : i \in {j \in 1..Len(f) : Upper(f[j][2]) = "EMPTY"}}

\* C2: when select_bandpass finds a match (wheel T, slot s), no device command
\* fails and the call returns, wheel T has been commanded to slot s and every
\* other connected band-pass wheel to one of its EMPTY slots.
C2_MatchedFilterAloneInPath ==
    \A t \in Ended("select_bandpass") :
        (th[t].match # NoMatch /\ ~th[t].fault /\ th[t].res = "ok")
            => /\ th[t].cmdd[th[t].match.w] = th[t].match.slot
               /\ \A w \in Keys \ {th[t].match.w} :
                    (IsConnected(w) /\ cfg.wheel[w].type = BP)
                        => th[t].cmdd[w] \in EmptySlots(w)

\* The filters that are classified bandpass and have a wavelength, on the
\* wheels online at construction, each with its place in the order of
\* construction (the wheels in order, then the wheel's filter map).
BandpassFilters ==
    UNION {LET w == cfg.keys[i]
               f == cfg.wheel[w].filters
           IN {[w |-> w, slot |-> f[j][1], name |-> f[j][2], ord |-> <<i, j>>] :
                 j \in {j \in 1..Len(f) :
                     /\ Upper(f[j][2]) # "EMPTY"
                     /\ cfg.meta[f[j][2]].wl # None
                     /\ \/ cfg.meta[f[j][2]].type = BP
                        \/ cfg.meta[f[j][2]].type = "" /\ cfg.wheel[w].type # ND}} :
           i \in {i \in 1..Len(cfg.keys) :
                     \E q \in 1..Len(rack.online) : rack.online[q] = cfg.keys[i]}}

WlOf(f) == cfg.meta[f.name].wl
Later(f, g) == g.ord[1] > f.ord[1] \/ (g.ord[1] = f.ord[1] /\ g.ord[2] > f.ord[2])

\* What select_bandpass does for filter f: its lookup returns f's wheel and
\* slot, and a move to a slot that is not EMPTY is the move of f's wheel to
\* f's slot.
ResolvesTo(t, f) ==
    /\ th[t].match = [w |-> f.w, slot |-> f.slot, name |-> f.name]
    /\ th[t].pc \in {"sb_move", "m_set", "m_poll"}
         => \/ th[t].w = f.w /\ th[t].slot = f.slot
            \/ th[t].w # f.w /\ th[t].slot \in EmptySlots(th[t].w)

\* C10 as stated: for every filter classified bandpass with wavelength w,
\* select_bandpass(w, tol_nm=0) resolves to that filter's wheel and slot.
C10_EveryBandpassFilterResolves ==
    \A t \in Calls("select_bandpass") :
        th[t].tol = 0 =>
            \A f \in BandpassFilters : WlOf(f) = th[t].wl => ResolvesTo(t, f)

\* C10 as amended: for every filter classified bandpass with wavelength w on
\* a wheel online at construction that no filter indexed later shares its
\* wavelength with, select_bandpass(w, tol_nm=0) resolves to that filter's
\* wheel and slot.
C10_LastBandpassFilterResolves ==
    \A t \in Calls("select_bandpass") :
        th[t].tol = 0 =>
            \A f \in BandpassFilters :
                (WlOf(f) = th[t].wl
                 /\ ~\E g \in BandpassFilters : WlOf(g) = WlOf(f) /\ Later(f, g))
                    => ResolvesTo(t, f)

\* A select_bandpass(w, 0) has returned after moving the wheel of the later
\* of two filters of wavelength w to that filter's slot.
C10_Witness ==
    \E t \in Ended("select_bandpass") :
        /\ th[t].tol = 0 /\ th[t].res = "ok"
        /\ \E f, g \in BandpassFilters :
            /\ WlOf(f) = th[t].wl /\ WlOf(g) = th[t].wl /\ Later(g, f)
            /\ th[t].cmdd[f.w] = f.slot

------------------------------------------------------------------------------
(* Claims about the rack's lookups, listing and teardown, under SpecRack *)

\* An entry of the index lies within the inclusive tolerance of the target.
SomeWithin(idx, target, tol) ==
    \E i \in 1..Len(idx) : Abs(target - idx[i].key) <= tol

\* C11: select_bandpass(wl, tol_nm) and select_nd(od, tol) raise the not-found
\* error (KeyError) exactly when no entry of their index lies within the
\* inclusive tolerance of the target, and the error then reports the
\* requested value and the tolerance.
C11_NotFoundIffNothingWithin ==
    /\ \A t \in Ended("select_bandpass") :
        /\ th[t].res = "KeyError" <=> ~SomeWithin(rack.wl_index, th[t].wl, th[t].tol)
        /\ th[t].res = "KeyError" => th[t].msg = [val |-> th[t].wl, tol |-> th[t].tol]
    /\ \A t \in Ended("select_nd") :
        th[t].od # None =>
            /\ th[t].res = "KeyError" <=> ~SomeWithin(rack.nd_index, th[t].od, th[t].tol)
            /\ th[t].res = "KeyError" => th[t].msg = [val |-> th[t].od, tol |-> th[t].tol]

\* C13: select_bandpass calls move_to only on a wheel that is not ND and
\* whose is_connected() has just answered true, a set-position command of the
\* call goes to a wheel that is not ND after move_to's own probe passed, and
\* while the call runs an ND wheel and a wheel that is not connected keep
\* their slot position.
C13_NdAndOfflineWheelsUntouched ==
    [][\A t \in DOMAIN th :
          th'[t].op = "select_bandpass" =>
            /\ (th[t].pc = "sb_loop" /\ th'[t].pc = "sb_move")
                  => /\ cfg.wheel[th'[t].w].type # ND
                     /\ hdl[th'[t].w] # None
                     /\ drv[th'[t].w] = hdl[th'[t].w]
            /\ th'[t].ncmd.set > th[t].ncmd.set
                  => cfg.wheel[th[t].w].type # ND /\ th[t].chk # None
            /\ \A w \in Keys :
                  (cfg.wheel[w].type = ND \/ hdl[w] = None \/ drv[w] # hdl[w])
                      => pos'[w] = pos[w]]_vars

\* A select_bandpass has returned after moving its target wheel, with a
\* connected ND wheel and a wheel with a stale handle left alone.
C13_Witness ==
    \E t \in Ended("select_bandpass") :
        /\ th[t].res = "ok"
        /\ \E w \in Keys : th[t].cmdd[w] # None /\ pos[w] = th[t].cmdd[w]
        /\ \E w \in Keys :
              /\ th[t].cmdd[w] = None /\ w \notin th[t].tried
              /\ \/ cfg.wheel[w].type = ND /\ hdl[w] # None /\ drv[w] = hdl[w]
                 \/ cfg.wheel[w].type # ND /\ hdl[w] # None /\ drv[w] # hdl[w]

\* The entries of the optical-density index within the tolerance of the
\* target that no other such entry is nearer to the target than.
NearestEntries(t) ==
    LET idx == rack.nd_index
        D(i) == Abs(th[t].od - idx[i].key)
    IN {idx[i] : i \in {i \in 1..Len(idx) :
                          /\ D(i) <= th[t].tol
                          /\ \A j \in 1..Len(idx) : D(j) <= th[t].tol => D(i) <= D(j)}}

\* C14: select_nd calls move_to on one wheel at most and issues one
\* set-position command at most; when it returns normally it has issued
\* exactly one, to the wheel and slot of the nearest entry within the
\* tolerance, and commanded no other wheel; a failure of that move (a failed
\* command, a lost connection, a timeout) is not caught: the call raises it.
C14_SelectNdMovesOneWheel ==
    \A t \in Calls("select_nd") :
        /\ th[t].ncmd.set <= 1
        /\ Cardinality(th[t].tried) <= 1
        /\ (th[t].pc = "done" /\ th[t].res = "ok") =>
              /\ th[t].ncmd.set = 1
              /\ \E e \in NearestEntries(t) :
                    /\ th[t].tried = {e.w}
                    /\ th[t].cmdd = [w \in Keys |-> IF w = e.w THEN e.slot ELSE None]
              /\ ~th[t].fault /\ ~th[t].lost
              /\ th[t].block => th[t].saw
        /\ (th[t].pc = "done" /\ (th[t].fault \/ th[t].lost))
              => th[t].res = "ThorlabsError"
        /\ (th[t].pc = "done" /\ th[t].ncmd.set = 1 /\ th[t].block
              /\ ~th[t].saw /\ ~th[t].fault /\ ~th[t].lost)
              => th[t].res = "TimeoutError"

\* A select_nd with two entries within its tolerance has returned after
\* moving the wheel of the nearer one to that entry's slot.
C14_Witness ==
    \E t \in Ended("select_nd") :
        /\ th[t].res = "ok" /\ th[t].ncmd.set = 1
        /\ \E i, j \in 1..Len(rack.nd_index) :
              /\ Abs(th[t].od - rack.nd_index[i].key) < Abs(th[t].od - rack.nd_index[j].key)
              /\ Abs(th[t].od - rack.nd_index[j].key) <= th[t].tol
              /\ pos[rack.nd_index[i].w] = rack.nd_index[i].slot
              /\ th[t].cmdd[rack.nd_index[i].w] = rack.nd_index[i].slot

\* The number an od argument carries: the number itself, or the number its
\* string is or ends in; None when there is none.
NumberOf(arg) == IF arg.str THEN FloatOf(LastToken(arg.text)) ELSE arg.val

\* C15: select_nd takes a number, a numeric string ("0.5") or a label ending
\* in a number ("ND 0.5") as od, parses the three forms of one value to the
\* same number, and raises the invalid-argument error (ValueError) only for
\* an argument without a parseable number.
C15_OdParsedFromNumberOrLabel ==
    \A t \in Calls("select_nd") :
        IF NumberOf(th[t].arg) # None
        THEN th[t].od = NumberOf(th[t].arg) /\ th[t].res # "ValueError"
        ELSE th[t].pc = "done" /\ th[t].res = "ValueError"

\* The filters, EMPTY apart, of the wheels that are connected now.
FiltersOfConnected ==
    UNION {LET f == cfg.wheel[w].filters
           IN {[w |-> w, slot |-> f[j][1], name |-> f[j][2]] :
                 j \in {j \in 1..Len(f) : Upper(f[j][2]) # "EMPTY"}} :
           w \in {w \in Keys : hdl[w] # None /\ drv[w] = hdl[w]}}

\* C16: available_filters() returns the filters that are not EMPTY of exactly
\* the wheels connected at the time of the call, whatever they were when the
\* rack was constructed.
C16_AvailableFiltersIsLive ==
    [][\A t \in DOMAIN th :
          (th[t].pc = "idle" /\ th'[t].op = "available_filters") =>
              {[w |-> th'[t].out[i].w, slot |-> th'[t].out[i].slot,
                name |-> th'[t].out[i].name] : i \in 1..Len(th'[t].out)}
                  = FiltersOfConnected]_vars

\* C17: FilterRack.close() never fails, and when it has returned every wheel
\* is Disconnected (no handle, is_connected() false), whatever each wheel's
\* connectivity and handle value before and whether or not a close command
\* failed.
C17_RackCloseDisconnectsAll ==
    \A t \in Ended("close") :
        /\ th[t].res = "ok"
        /\ \A w \in Keys : hdl[w] = None /\ ~(hdl[w] # None /\ drv[w] = hdl[w])

\* C18: when LabServer.close() has finished, normally or not, every filter
\* wheel of the rack is disconnected, also when the close of the shutter or
\* the disconnect of the ammeter failed.
C18_ServerCloseDisconnectsWheels ==
    \A t \in Ended("server_close") :
        \A w \in Keys : ~(hdl[w] # None /\ drv[w] = hdl[w])

\* The first entry, in the iteration order of the wavelength index, of the
\* entries within the tolerance that are at the least distance from the target.
FirstNearest(t) ==
    LET idx == rack.wl_index
        D(i) == Abs(th[t].wl - idx[i].key)
        best == {i \in 1..Len(idx) :
                   /\ D(i) <= th[t].tol
                   /\ \A j \in 1..Len(idx) : D(j) <= th[t].tol => D(i) <= D(j)}
    IN idx[CHOOSE i \in best : \A j \in best : i <= j]

\* C20: of the entries of the wavelength index within the tolerance,
\* select_bandpass chooses one at the least distance from the target, and of
\* several at that distance the one first in the iteration order of the
\* index, whatever their wheel keys, slots and names.
C20_TieGoesToFirstEncountered ==
    \A t \in Calls("select_bandpass") :
        th[t].match # NoMatch =>
            th[t].match = [w |-> FirstNearest(t).w, slot |-> FirstNearest(t).slot,
                           name |-> FirstNearest(t).name]

\* The first entry, in the iteration order of the optical-density index, of
\* the entries within the tolerance at the least distance from the target.
FirstNearestNd(t) ==
    LET idx == rack.nd_index
        D(i) == Abs(th[t].od - idx[i].key)
        best == {i \in 1..Len(idx) :
                   /\ D(i) <= th[t].tol
                   /\ \A j \in 1..Len(idx) : D(j) <= th[t].tol => D(i) <= D(j)}
    IN idx[CHOOSE i \in best : \A j \in best : i <= j]

\* C21: of the entries of the optical-density index within the tolerance,
\* select_nd chooses one at the least distance from the requested OD, and of
\* several at that distance the one first in the iteration order of the
\* index; select_nd(d, tol=0) for an indexed value d chooses the entry of d.
C21_NdTieGoesToFirstEncountered ==
    \A t \in Calls("select_nd") :
        /\ th[t].match # NoMatch =>
              th[t].match = [w |-> FirstNearestNd(t).w, slot |-> FirstNearestNd(t).slot,
                             name |-> FirstNearestNd(t).name]
        /\ (th[t].od # None /\ th[t].tol = 0) =>
              \A i \in 1..Len(rack.nd_index) :
                  rack.nd_index[i].key = th[t].od =>
                      th[t].match = [w |-> rack.nd_index[i].w, slot |-> rack.nd_index[i].slot,
                                     name |-> rack.nd_index[i].name]

\* A select_nd with two entries at the same distance has returned after
\* moving their wheel to the slot of the one first in the index, the higher
\* slot of the two.
C21_Witness ==
    \E t \in Ended("select_nd") :
        /\ th[t].res = "ok"
        /\ \E i, j \in 1..Len(rack.nd_index) :
              /\ i < j
              /\ Abs(th[t].od - rack.nd_index[i].key) = Abs(th[t].od - rack.nd_index[j].key)
              /\ Abs(th[t].od - rack.nd_index[i].key) <= th[t].tol
              /\ rack.nd_index[i].w = rack.nd_index[j].w
              /\ rack.nd_index[i].slot > rack.nd_index[j].slot
              /\ th[t].cmdd[rack.nd_index[i].w] = rack.nd_index[i].slot

\* C25: status() of a wheel that is disconnected reports connected false,
\* no position and no filter; a status() that reports position p, for every p
\* in [0, slots], reports as current filter the name the filter map gives
\* slot p, or the unknown marker when the map has no entry for p.
C25_StatusReportsFilterAtPosition ==
    \A t \in Ended("status") :
        th[t].res = "ok" =>
            /\ ~th[t].live0 =>
                  th[t].st = [connected |-> FALSE, position |-> None, filter |-> "None"]
            /\ th[t].st.position # None =>
                  /\ th[t].st.position \in 0..cfg.wheel[th[t].w].slots
                  /\ th[t].st.filter = FilterAt(th[t].w, th[t].st.position)

\* C26: a select_bandpass or select_nd that fails with the not-found error
\* (KeyError) or the invalid-argument error (ValueError) has called move_to
\* on no wheel and issued no set-position command: the error comes before
\* the first wheel is commanded.
C26_NotFoundBeforeAnyMove ==
    \A t \in Ended("select_bandpass") \cup Ended("select_nd") :
        th[t].res \in {"KeyError", "ValueError"} =>
            /\ th[t].tried = {}
            /\ th[t].ncmd.set = 0
            /\ \A w \in Keys : th[t].cmdd[w] = None

------------------------------------------------------------------------------
(* Claims about the construction of the rack, under SpecBuild *)

\* The wheels of the entries of the two indices.
IndexedWheels ==
    {rack.wl_index[i].w : i \in 1..Len(rack.wl_index)}
        \cup {rack.nd_index[i].w : i \in 1..Len(rack.nd_index)}

InList(l, w) == \E i \in 1..Len(l) : l[i] = w

\* C12: when the rack is constructed, every wheel that was offline when the
\* offline list was computed is in the offline list and is the wheel of no
\* index entry, and every index entry's wheel is in the online list, also
\* when a wheel's liveness probe answers differently while the constructor
\* runs.
C12_OfflineWheelsNotIndexed ==
    \A t \in Ended("init") :
        /\ \A w \in Keys \ th[t].seen : InList(rack.offline, w) /\ w \notin IndexedWheels
        /\ \A w \in IndexedWheels : InList(rack.online, w)

\* The class of a filter: its explicit metadata type when there is one, else
\* the type of its wheel (bandpass, nd or unknown).
ClassOf(w, name) ==
    IF cfg.meta[name].type # "" THEN cfg.meta[name].type ELSE cfg.wheel[w].type

\* C23: an entry of the wavelength index is a filter of class bandpass (by
\* its explicit metadata type, else by its wheel's type) with a known
\* wavelength, and an entry of the optical-density index a filter of class
\* nd; a filter without explicit type on a wheel of type unknown is in
\* neither index.
C23_IndexedByExplicitOrWheelType ==
    /\ \A i \in 1..Len(rack.wl_index) :
          /\ ClassOf(rack.wl_index[i].w, rack.wl_index[i].name) = BP
          /\ cfg.meta[rack.wl_index[i].name].wl # None
    /\ \A i \in 1..Len(rack.nd_index) :
          ClassOf(rack.nd_index[i].w, rack.nd_index[i].name) = ND

------------------------------------------------------------------------------
(* Claims about a repeated selection, under SpecTwice *)

\* C19 as stated: after a select_bandpass has returned, a second
\* select_bandpass with the same arguments leaves every wheel at the slot it
\* was at after the first.
C19_SecondCallMovesNothing ==
    [][(th[1].res = "ok" /\ th'[2].op = "select_bandpass") => pos' = pos]_vars

\* The first call returned normally, none of its device commands failed and
\* every wheel it commanded stands at the slot it was commanded to.
FirstCallSettled ==
    /\ th[1].pc = "done" /\ th[1].res = "ok" /\ ~th[1].fault
    /\ \A w \in Keys : th[1].cmdd[w] # None => pos[w] = th[1].cmdd[w]

\* C19 as amended: when the first select_bandpass returned normally, none of
\* its device commands failed and every wheel it commanded has reached its
\* slot, a second select_bandpass with the same arguments changes no
\* wheel's position.
C19_SecondCallAfterSettledFirst ==
    [][(FirstCallSettled /\ th'[2].op = "select_bandpass") => pos' = pos]_vars

\* The second call has returned after commanding two wheels that the first
\* call had moved, each to the slot it stands at.
C19_Witness ==
    /\ FirstCallSettled
    /\ th[2].op = "select_bandpass" /\ th[2].pc = "done" /\ th[2].res = "ok"
    /\ \A w \in Keys :
          /\ th[2].cmdd[w] # None /\ th[2].cmdd[w] = th[1].cmdd[w]
          /\ pos[w] = th[2].cmdd[w] /\ pos[w] # 0

\* C22: the EMPTY slot select_bandpass moves a wheel that is not the target
\* to is the lowest-numbered EMPTY slot of that wheel, whatever the order
\* of the slots in the wheel's filter map.
C22_ClearsToLowestEmptySlot ==
    \A t \in Calls("select_bandpass") :
        (th[t].pc \in {"sb_move", "m_set", "m_poll"} /\ th[t].w # th[t].match.w)
            => /\ th[t].slot \in EmptySlots(th[t].w)
               /\ \A e \in EmptySlots(th[t].w) : th[t].slot <= e

------------------------------------------------------------------------------
(* Claims about concurrent selections, under SpecConc *)

\* C24: there is no rack-level lock: a caller's select_bandpass can start
\* while another caller's is between its moves, no lock is held while the
\* calls run, and each call's next step can be taken whatever the other call
\* is doing; so the per-wheel moves of two calls interleave.
C24_SelectionsAreNotSerialized ==
    /\ \A w \in Keys : lock[w] = None
    /\ \A t \in DOMAIN th :
          /\ th[t].pc = "idle" => ENABLED ConcEnter(t)
          /\ th[t].pc = "sb_loop" => ENABLED SelectStep(t)
          /\ th[t].pc = "sb_move" => ENABLED SelectMove(t)
          /\ th[t].pc = "m_set" => ENABLED MoveSet(t)

\* Call t returned normally, every device command of it succeeded and each
\* of its blocking moves was confirmed.
CleanCall(t) ==
    /\ th[t].op = "select_bandpass" /\ th[t].pc = "done" /\ th[t].res = "ok"
    /\ ~th[t].fault /\ th[t].block
    /\ \A w \in Keys : th[t].cmdd[w] # None

\* Two concurrent calls with targets on different wheels have both returned
\* normally, and both wheels hold their filter in the path: the outcome neither
\* call intended.
C24_Witness ==
    /\ CleanCall(1) /\ CleanCall(2)
    /\ th[1].match.w # th[2].match.w
    /\ \A w \in Keys : IsConnected(w) /\ pos[w] \notin EmptySlots(w)
    /\ \A t \in DOMAIN th : pos[th[t].match.w] = th[t].match.slot

====
